---- MODULE Spec2Model ----
(***************************************************************************)
(* Release-automation scripts of ios-infra:                                *)
(*   scripts/generate_icons.py          (icon set + Contents.json)         *)
(*   scripts/generate_description.py    (App Store description)            *)
(*   scripts/generate_release_notes.py  (release notes)                    *)
(*                                                                         *)
(* Spec      : one run of main() of any of the three scripts, step by      *)
(*             step, every subprocess / API / file-system step able to     *)
(*             fail the way the code lets it fail.                         *)
(* SpecParse, SpecMeta, SpecCtx, SpecTag, SpecVer : the helper functions,  *)
(*             applied to inputs drawn from bounded sets.                  *)
(*                                                                         *)
(* Text that the code inspects character by character is a sequence of     *)
(* one-character strings; text that is only formatted is a TLA+ string.    *)
(* Point sizes are kept in tenths of a point (83.5pt is 835).              *)
(***************************************************************************)
EXTENDS Integers, Sequences, FiniteSets, TLC

VARIABLES
    script,           \* which script's main() runs
    pc,               \* position in main()
    apiKey,           \* os.environ.get("ANTHROPIC_API_KEY")
    outputArg,        \* args.output
    previewOnly,      \* args.preview_only
    iosPath,          \* ios_path, as path components
    dirs,             \* directories that exist
    files,            \* output files: "absent" | "old" | "new" | "partial"
    dirs0, files0,    \* dirs and files when the run started
    gitCalls,         \* version-control subprocesses run so far
    apiCalls,         \* client.messages.create calls so far
    exitCode,         \* -1 while running, then the exit status
    failedAt,         \* pc of the step that raised, or "none"
    outPath,          \* output_path of the text scripts
    idx,              \* position of the draw loop in IOS_ICON_SIZES
    generated_sizes,  \* generated_sizes of generate_icons.main
    saved,            \* names passed to icon.save, in order
    manifest,         \* the dict dumped to Contents.json
    total,            \* the number printed as "Total icons"
    input,            \* arguments of the helper function under check
    result            \* its outcome

mainVars == <<script, pc, apiKey, outputArg, previewOnly, iosPath, dirs, files,
              dirs0, files0, gitCalls, apiCalls, exitCode, failedAt, outPath,
              idx, generated_sizes, saved, manifest, total>>
fnVars == <<input, result>>
vars == <<script, pc, apiKey, outputArg, previewOnly, iosPath, dirs, files,
          dirs0, files0, gitCalls, apiCalls, exitCode, failedAt, outPath,
          idx, generated_sizes, saved, manifest, total, input, result>>

(***************************************************************************)
(* Text helpers                                                            *)
(***************************************************************************)

\* str(int): decimal digits.
Digit(d) ==
    CASE d = 0 -> "0" [] d = 1 -> "1" [] d = 2 -> "2" [] d = 3 -> "3"
      [] d = 4 -> "4" [] d = 5 -> "5" [] d = 6 -> "6" [] d = 7 -> "7"
      [] d = 8 -> "8" [] d = 9 -> "9"

RECURSIVE Dec(_)
Dec(n) == IF n < 10 THEN Digit(n) ELSE Dec(n \div 10) \o Digit(n % 10)

\* f"{points}": an int literal prints bare, the float 83.5 with its fraction.
PointsStr(p10) ==
    IF p10 % 10 = 0 THEN Dec(p10 \div 10)
    ELSE Dec(p10 \div 10) \o "." \o Dec(p10 % 10)

\* Characters str.strip() removes (those that occur in the modelled texts).
IsSpace(c) == c \in {" ", "\n", "\t"}

RECURSIVE LStrip(_)
LStrip(s) == IF s # <<>> /\ IsSpace(Head(s)) THEN LStrip(Tail(s)) ELSE s

RECURSIVE RStrip(_)
RStrip(s) ==
    IF s # <<>> /\ IsSpace(s[Len(s)]) THEN RStrip(SubSeq(s, 1, Len(s) - 1)) ELSE s

\* str.strip()
Strip(s) == RStrip(LStrip(s))

\* str.split(sep): "".split(sep) is [""].
RECURSIVE Split(_, _)
Split(s, sep) ==
    IF \E i \in 1..Len(s) : s[i] = sep
    THEN LET i == CHOOSE k \in 1..Len(s) :
                     s[k] = sep /\ \A j \in 1..(k - 1) : s[j] # sep
         IN  <<SubSeq(s, 1, i - 1)>> \o Split(SubSeq(s, i + 1, Len(s)), sep)
    ELSE <<s>>

\* sep.join(parts)
RECURSIVE JoinWith(_, _)
JoinWith(parts, sep) ==
    IF parts = <<>> THEN <<>>
    ELSE IF Len(parts) = 1 THEN parts[1]
    ELSE parts[1] \o <<sep>> \o JoinWith(Tail(parts), sep)

\* pat in s
IsSubstr(pat, s) ==
    \E i \in 0..(Len(s) - Len(pat)) : SubSeq(s, i + 1, i + Len(pat)) = pat

(***************************************************************************)
(* Paths (pathlib): a path is its sequence of components                   *)
(***************************************************************************)

RepoRoot == <<"root">>

\* Path.__truediv__: "." components vanish.
PathJoin(p, comps) == p \o SelectSeq(comps, LAMBDA c : c # ".")

Parent(p) == SubSeq(p, 1, Len(p) - 1)

PrefixesUpTo(p, k) == {SubSeq(p, 1, j) : j \in 1..k}

\* Path.mkdir(parents=True, exist_ok=True)
MkdirParents(ds, d) == ds \cup PrefixesUpTo(d, Len(d))

\* A completed write of a file: Path.write_text, Image.save, open(.., "w") + dump.
\* A write that leaves nothing behind.
WriteFileNoop(fs, p) == fs
WriteFile(fs, p) == [fs EXCEPT ![p] = "new"]

\* What a write that raises can leave: the file as it was, or cut short.
FailedWrite(fs, p) == {fs, [fs EXCEPT ![p] = "partial"]}

(***************************************************************************)
(* generate_icons.py                                                       *)
(***************************************************************************)

\* (points in tenths, scale)
IOS_ICON_SIZES ==
    << <<200, 2>>, <<200, 3>>, <<290, 2>>, <<290, 3>>,
       <<400, 2>>, <<400, 3>>, <<600, 2>>, <<600, 3>>,
       <<200, 1>>, <<200, 2>>, <<290, 1>>, <<290, 2>>,
       <<400, 1>>, <<400, 2>>, <<760, 1>>, <<760, 2>>,
       <<835, 2>>,
       <<10240, 1>> >>

\* int(points * scale): truncation.
\* The scale factor forgotten.
PixelSizeOfPoints(p10, scale) == p10 \div 10
PixelSize(p10, scale) == (p10 * scale) \div 10

\* f"icon_{pixel_size}x{pixel_size}.png"
IconFileName(px) == "icon_" \o Dec(px) \o "x" \o Dec(px) \o ".png"

Idiom(p10, scale) ==
    IF p10 \in {600} /\ scale \in {2, 3} THEN "iphone"
    ELSE IF p10 \in {760, 835} THEN "ipad"
    ELSE IF p10 = 10240 THEN "ios-marketing"
    ELSE "universal"

\* The manifest naming each file by the point size alone.
ManifestEntryByPoints(p10, scale) ==
    [filename |-> IconFileName(PixelSizeOfPoints(p10, scale)),
     idiom    |-> Idiom(p10, scale),
     scale    |-> Dec(scale) \o "x",
     size     |-> PointsStr(p10) \o "x" \o PointsStr(p10)]

ManifestEntry(p10, scale) ==
    [filename |-> IconFileName(PixelSize(p10, scale)),
     idiom    |-> Idiom(p10, scale),
     scale    |-> Dec(scale) \o "x",
     size     |-> PointsStr(p10) \o "x" \o PointsStr(p10)]

generate_contents_json(sizes) ==
    [images |-> [i \in 1..Len(sizes) |-> ManifestEntry(sizes[i][1], sizes[i][2])],
     info   |-> [author |-> "ios-infra", version |-> 1]]

\* if pixel_size in generated_sizes: continue
\* The duplicate test never taken.
AlreadyGeneratedNever(px, gs) == FALSE
AlreadyGenerated(px, gs) == px \in gs

IconsDir == <<"AppIcon.appiconset">>
AllPixelSizes == {PixelSize(IOS_ICON_SIZES[i][1], IOS_ICON_SIZES[i][2]) :
                    i \in 1..Len(IOS_ICON_SIZES)}
IconPath(px) == IconsDir \o <<IconFileName(px)>>
ContentsPath == IconsDir \o <<"Contents.json">>
IconFiles == {IconPath(px) : px \in AllPixelSizes} \cup {ContentsPath}

\* What an earlier run of the icon generator left in the output directory.
IconsFilesBefore ==
    { [f \in IconFiles |-> "absent"],
      [f \in IconFiles |-> "old"],
      [f \in IconFiles |-> IF f = IconPath(1024) THEN "old" ELSE "absent"] }

NoManifest == [images |-> <<>>, info |-> [author |-> "", version |-> 0]]
NoInput == [fn |-> "none"]
NoResult == [done |-> FALSE]

(***************************************************************************)
(* Version-control queries (generate_release_notes.py)                     *)
(***************************************************************************)

\* s[:n]
Take(s, n) == SubSeq(s, 1, IF Len(s) < n THEN Len(s) ELSE n)

HashPrefixLen == 8

\* A subprocess.run(..., check=True): rc "ok", or CalledProcessError raised.
Ok(out) == [rc |-> "ok", stdout |-> out]
CmdFailed == [rc |-> "CalledProcessError", stdout |-> <<>>]

\* d: the outcome of `git describe --tags --abbrev=0`; r: the outcome of
\* `git rev-list --max-parents=0 HEAD`, were it run.  calls: what was run.
\* The fallback without its [:8].
get_last_release_tag_untruncated(d, r) ==
    IF d.rc = "ok"
    THEN [raised |-> FALSE, value |-> Strip(d.stdout), calls |-> <<"describe">>]
    ELSE IF r.rc = "ok"
    THEN [raised |-> FALSE, value |-> Strip(r.stdout),
          calls |-> <<"describe", "rev-list">>]
    ELSE [raised |-> TRUE, value |-> <<>>, calls |-> <<"describe", "rev-list">>]
get_last_release_tag(d, r) ==
    IF d.rc = "ok"
    THEN [raised |-> FALSE, value |-> Strip(d.stdout), calls |-> <<"describe">>]
    ELSE IF r.rc = "ok"
    THEN [raised |-> FALSE, value |-> Take(Strip(r.stdout), HashPrefixLen),
          calls |-> <<"describe", "rev-list">>]
    ELSE [raised |-> TRUE, value |-> <<>>, calls |-> <<"describe", "rev-list">>]

\* if len(parts) >= 5
\* > in place of >=.
EnoughFieldsStrict(parts) == Len(parts) > 5
EnoughFields(parts) == Len(parts) >= 5

\* The loop over result.stdout.strip().split("\n").
RECURSIVE ParseCommitLines(_)
ParseCommitLines(lines) ==
    IF lines = <<>> THEN <<>>
    ELSE LET line  == Head(lines)
             parts == Split(line, "|")
         IN  (IF line # <<>> /\ EnoughFields(parts)
              THEN << [hash |-> parts[1], subject |-> parts[2], body |-> parts[3],
                       author |-> parts[4], date |-> parts[5]] >>
              ELSE <<>>)
             \o ParseCommitLines(Tail(lines))

\* The range query without its except clause.
get_commits_since_tag_no_fallback(range, recent) ==
    IF range.rc = "ok"
    THEN [raised |-> FALSE, calls |-> <<"log-range">>,
          value |-> ParseCommitLines(Split(Strip(range.stdout), "\n"))]
    ELSE [raised |-> TRUE, calls |-> <<"log-range">>, value |-> <<>>]

\* range: the outcome of `git log <tag>..HEAD ...`; recent: the outcome of
\* `git log -50 ...`, were it run.
get_commits_since_tag(range, recent) ==
    IF range.rc = "ok"
    THEN [raised |-> FALSE, calls |-> <<"log-range">>,
          value |-> ParseCommitLines(Split(Strip(range.stdout), "\n"))]
    ELSE IF recent.rc = "ok"
    THEN [raised |-> FALSE, calls |-> <<"log-range", "log-50">>,
          value |-> ParseCommitLines(Split(Strip(recent.stdout), "\n"))]
    ELSE [raised |-> TRUE, calls |-> <<"log-range", "log-50">>, value |-> <<>>]

\* --pretty=format:%H|%s|%b|%an|%ad : one record per commit, a newline between
\* records and none after the last.
FormatCommit(c) ==
    c.hash \o <<"|">> \o c.subject \o <<"|">> \o c.body \o <<"|">>
      \o c.author \o <<"|">> \o c.date
LogOutput(cs) == JoinWith([i \in 1..Len(cs) |-> FormatCommit(cs[i])], "\n")

(***************************************************************************)
(* main() of generate_description.py and generate_release_notes.py         *)
(***************************************************************************)

TextScripts == {"description", "release_notes"}
Scripts == TextScripts \cup {"icons"}

OutName(s) == IF s = "description" THEN "description.txt" ELSE "release_notes.txt"

\* if not os.environ.get("ANTHROPIC_API_KEY")
\* A test for an unset variable only (`is None`).
KeyMissingOnlyIfUnset(k) == k = "absent"
KeyMissing(k) == k \in {"absent", "empty"}

\* if args.output
HasOutputPath(a) == a.given /\ a.value # <<>>

IosPaths == {<<"ios">>, <<".">>}
AppFastlane(ip) == PathJoin(RepoRoot, ip \o <<"fastlane">>)
RootFastlane == PathJoin(RepoRoot, <<"fastlane">>)
MetaFile(fastlane, s) == fastlane \o <<"metadata", "en-US", OutName(s)>>
CustomOut(s) == <<"out", OutName(s)>>

\* The if / elif / else that picks output_path when --output is absent.
\* The two probes in the other order.
ProbeOutputRootFirst(ds, ip, s) ==
    IF RootFastlane \in ds THEN MetaFile(RootFastlane, s)
    ELSE IF AppFastlane(ip) \in ds THEN MetaFile(AppFastlane(ip), s)
    ELSE MetaFile(RootFastlane, s)
ProbeOutput(ds, ip, s) ==
    IF AppFastlane(ip) \in ds THEN MetaFile(AppFastlane(ip), s)
    ELSE IF RootFastlane \in ds THEN MetaFile(RootFastlane, s)
    ELSE MetaFile(RootFastlane, s)

TextFiles(s) ==
    {MetaFile(AppFastlane(<<"ios">>), s), MetaFile(RootFastlane, s), CustomOut(s)}

\* Directory trees a run can start from.
DirScenarios ==
    LET app == Parent(MetaFile(AppFastlane(<<"ios">>), "description"))
        top == Parent(MetaFile(RootFastlane, "description"))
    IN  { {RepoRoot} \cup PrefixesUpTo(app, a) \cup PrefixesUpTo(top, b) \cup c :
            a \in 0..Len(app), b \in 0..Len(top), c \in {{}, {<<"out">>}} }

DescribeOutcomes == {Ok(<<"v", "1", "\n">>), CmdFailed}
RevListOutcomes == {Ok(<<"0", "1", "2", "3", "4", "5", "6", "7", "8", "9", "\n">>), CmdFailed}
LogOutcomes ==
    {Ok(<<>>), Ok(<<"h", "|", "s", "|", "|", "a", "|", "d">>), CmdFailed}

envVars == <<script, apiKey, outputArg, previewOnly, iosPath, dirs0, files0>>
iconVars == <<idx, generated_sizes, saved, manifest, total>>

Goto(next) == pc' = next /\ exitCode' = exitCode /\ failedAt' = failedAt
\* An exception nobody catches: traceback, exit status 1.
Raise == pc' = "crashed" /\ exitCode' = 1 /\ failedAt' = pc

\* lines 239-241 / 252-254
CheckApiKey ==
    /\ script \in TextScripts /\ pc = "check_key"
    /\ IF KeyMissing(apiKey)
       THEN pc' = "exited" /\ exitCode' = 1 /\ failedAt' = pc
       ELSE Goto(IF script = "description" THEN "get_repo_root" ELSE "main_last_tag")
    /\ UNCHANGED <<dirs, files, gitCalls, apiCalls, outPath, envVars, iconVars, fnVars>>

\* get_last_release_tag(): in main (line 268), again in generate_release_notes.
LastReleaseTag ==
    /\ script = "release_notes" /\ pc \in {"main_last_tag", "last_tag"}
    /\ \E d \in DescribeOutcomes, r \in RevListOutcomes :
         LET res == get_last_release_tag(d, r)
         IN  /\ gitCalls' = gitCalls + Len(res.calls)
             /\ IF res.raised THEN Raise
                ELSE Goto(IF pc = "main_last_tag" THEN "get_repo_root" ELSE "commits")
    /\ UNCHANGED <<dirs, files, apiCalls, outPath, envVars, iconVars, fnVars>>

\* get_repo_root() at the top of generate_description / generate_release_notes
GetRepoRoot ==
    /\ script \in TextScripts /\ pc = "get_repo_root"
    /\ gitCalls' = gitCalls + 1
    /\ \E ok \in BOOLEAN :
         IF ok THEN Goto(IF script = "description" THEN "gather" ELSE "last_tag")
         ELSE Raise
    /\ UNCHANGED <<dirs, files, apiCalls, outPath, envVars, iconVars, fnVars>>

\* get_swift_files, read_file_contents, get_existing_metadata: reads only; an
\* unreadable metadata file raises.
GatherContext ==
    /\ script = "description" /\ pc = "gather"
    /\ \E ok \in BOOLEAN : IF ok THEN Goto("api") ELSE Raise
    /\ UNCHANGED <<dirs, files, gitCalls, apiCalls, outPath, envVars, iconVars, fnVars>>

CommitsSinceTag ==
    /\ script = "release_notes" /\ pc = "commits"
    /\ \E range \in LogOutcomes, recent \in LogOutcomes :
         LET res == get_commits_since_tag(range, recent)
         IN  /\ gitCalls' = gitCalls + Len(res.calls)
             /\ IF res.raised THEN Raise ELSE Goto("changed_files")
    /\ UNCHANGED <<dirs, files, apiCalls, outPath, envVars, iconVars, fnVars>>

\* get_changed_files_since_tag: a failing `git diff` is caught.
ChangedFiles ==
    /\ script = "release_notes" /\ pc = "changed_files"
    /\ gitCalls' = gitCalls + 1
    /\ Goto("version")
    /\ UNCHANGED <<dirs, files, apiCalls, outPath, envVars, iconVars, fnVars>>

\* get_current_version: reads only; an unreadable project.yml raises.
CurrentVersion ==
    /\ script = "release_notes" /\ pc = "version"
    /\ \E ok \in BOOLEAN : IF ok THEN Goto("api") ELSE Raise
    /\ UNCHANGED <<dirs, files, gitCalls, apiCalls, outPath, envVars, iconVars, fnVars>>
\* The call retried once after a failure.
CallApiRetryOnce ==
    /\ script \in TextScripts /\ pc = "api"
    /\ apiCalls' = apiCalls + 1
    /\ \E ok \in BOOLEAN :
         IF ok THEN Goto("resolve")
         ELSE IF apiCalls = 0 THEN Goto("api") ELSE Raise
    /\ UNCHANGED <<dirs, files, gitCalls, outPath, envVars, iconVars, fnVars>>


\* client.messages.create(...): one call, not guarded.
CallApi ==
    /\ script \in TextScripts /\ pc = "api"
    /\ apiCalls' = apiCalls + 1
    /\ \E ok \in BOOLEAN : IF ok THEN Goto("resolve") ELSE Raise
    /\ UNCHANGED <<dirs, files, gitCalls, outPath, envVars, iconVars, fnVars>>

\* lines 266-278 / 282-294
ResolveOutput ==
    /\ script \in TextScripts /\ pc = "resolve"
    /\ IF HasOutputPath(outputArg)
       THEN /\ outPath' = outputArg.value
            /\ gitCalls' = gitCalls
            /\ Goto("mkdir")
       ELSE /\ gitCalls' = gitCalls + 1
            /\ \E ok \in BOOLEAN :
                 IF ok THEN outPath' = ProbeOutput(dirs, iosPath, script) /\ Goto("mkdir")
                 ELSE outPath' = outPath /\ Raise
    /\ UNCHANGED <<dirs, files, apiCalls, envVars, iconVars, fnVars>>

\* output_path.parent.mkdir(parents=True, exist_ok=True); a failure can leave
\* the ancestors made before it.
MkdirOutputParent ==
    /\ script \in TextScripts /\ pc = "mkdir"
    /\ \E ok \in BOOLEAN :
         IF ok THEN dirs' = MkdirParents(dirs, Parent(outPath)) /\ Goto("write")
         ELSE /\ \E k \in 0..(Len(outPath) - 2) :
                    dirs' = dirs \cup PrefixesUpTo(Parent(outPath), k)
              /\ Raise
    /\ UNCHANGED <<files, gitCalls, apiCalls, outPath, envVars, iconVars, fnVars>>

\* output_path.write_text(...)
WriteOutput ==
    /\ script \in TextScripts /\ pc = "write"
    /\ \E ok \in BOOLEAN :
         IF ok THEN files' = WriteFile(files, outPath)
                    /\ pc' = "done" /\ exitCode' = 0 /\ failedAt' = failedAt
         ELSE files' \in FailedWrite(files, outPath) /\ Raise
    /\ UNCHANGED <<dirs, gitCalls, apiCalls, outPath, envVars, iconVars, fnVars>>

(***************************************************************************)
(* main() of generate_icons.py                                             *)
(***************************************************************************)

\* output_dir.mkdir(parents=True, exist_ok=True)
IconsMkdir ==
    /\ script = "icons" /\ pc = "mkdir_out"
    /\ \E ok \in BOOLEAN :
         IF ok THEN dirs' = MkdirParents(dirs, IconsDir)
                    /\ Goto(IF previewOnly THEN "preview" ELSE "loop")
         ELSE dirs' = dirs /\ Raise
    /\ UNCHANGED <<files, gitCalls, apiCalls, outPath, envVars, iconVars, fnVars>>

\* The preview branch without its return: the run goes on into the draw loop.
PreviewSaveFallThrough ==
    /\ script = "icons" /\ pc = "preview"
    /\ \E ok \in BOOLEAN :
         IF ok THEN /\ files' = WriteFile(files, IconPath(1024))
                    /\ saved' = Append(saved, IconFileName(1024))
                    /\ Goto("loop")
         ELSE /\ files' \in FailedWrite(files, IconPath(1024))
              /\ saved' = saved
              /\ Raise
    /\ UNCHANGED <<dirs, gitCalls, apiCalls, outPath, envVars, idx,
                   generated_sizes, manifest, total, fnVars>>

\* lines 283-286
PreviewSave ==
    /\ script = "icons" /\ pc = "preview"
    /\ \E ok \in BOOLEAN :
         IF ok THEN /\ files' = WriteFile(files, IconPath(1024))
                    /\ saved' = Append(saved, IconFileName(1024))
                    /\ pc' = "done" /\ exitCode' = 0 /\ failedAt' = failedAt
         ELSE /\ files' \in FailedWrite(files, IconPath(1024))
              /\ saved' = saved
              /\ Raise
    /\ UNCHANGED <<dirs, gitCalls, apiCalls, outPath, envVars, idx,
                   generated_sizes, manifest, total, fnVars>>

\* One iteration of `for points, scale in IOS_ICON_SIZES` (lines 292-303).
DrawLoopStep ==
    /\ script = "icons" /\ pc = "loop" /\ idx <= Len(IOS_ICON_SIZES)
    /\ LET px == PixelSize(IOS_ICON_SIZES[idx][1], IOS_ICON_SIZES[idx][2])
       IN  IF AlreadyGenerated(px, generated_sizes)
           THEN /\ idx' = idx + 1
                /\ UNCHANGED <<files, generated_sizes, saved>>
                /\ Goto("loop")
           ELSE /\ generated_sizes' = generated_sizes \cup {px}
                /\ \E ok \in BOOLEAN :
                     IF ok THEN /\ files' = WriteFile(files, IconPath(px))
                                /\ saved' = Append(saved, IconFileName(px))
                                /\ idx' = idx + 1
                                /\ Goto("loop")
                     ELSE /\ files' \in FailedWrite(files, IconPath(px))
                          /\ saved' = saved
                          /\ idx' = idx
                          /\ Raise
    /\ UNCHANGED <<dirs, gitCalls, apiCalls, outPath, envVars, manifest, total, fnVars>>

\* lines 306-312, after the loop has run off the catalog.
WriteContents ==
    /\ script = "icons" /\ pc = "loop" /\ idx > Len(IOS_ICON_SIZES)
    /\ \E ok \in BOOLEAN :
         IF ok THEN /\ manifest' = generate_contents_json(IOS_ICON_SIZES)
                    /\ files' = WriteFile(files, ContentsPath)
                    /\ total' = Cardinality(generated_sizes)
                    /\ pc' = "done" /\ exitCode' = 0 /\ failedAt' = failedAt
         ELSE /\ files' \in FailedWrite(files, ContentsPath)
              /\ UNCHANGED <<manifest, total>>
              /\ Raise
    /\ UNCHANGED <<dirs, gitCalls, apiCalls, outPath, envVars, idx,
                   generated_sizes, saved, fnVars>>

(***************************************************************************)
(* One run of one script                                                   *)
(***************************************************************************)

NoOutput == [given |-> FALSE, value |-> <<>>]

InitIcons ==
    /\ script = "icons" /\ pc = "mkdir_out"
    /\ apiKey \in {"absent", "set"}
    /\ outputArg = [given |-> TRUE, value |-> IconsDir]
    /\ previewOnly \in BOOLEAN
    /\ iosPath = <<".">>
    /\ dirs \in {{RepoRoot}, {RepoRoot, IconsDir}}
    /\ files \in IconsFilesBefore
    /\ \A f \in IconFiles : files[f] = "old" => Parent(f) \in dirs

InitText ==
    /\ script \in TextScripts /\ pc = "check_key"
    /\ apiKey \in {"absent", "empty", "set"}
    /\ outputArg \in {NoOutput, [given |-> TRUE, value |-> <<>>],
                      [given |-> TRUE, value |-> CustomOut(script)]}
    /\ previewOnly = FALSE
    /\ iosPath \in IosPaths
    /\ dirs \in DirScenarios
    /\ files \in [TextFiles(script) -> {"absent", "old"}]
    /\ \A f \in TextFiles(script) : files[f] = "old" => Parent(f) \in dirs

Init ==
    /\ (InitIcons \/ InitText)
    /\ dirs0 = dirs /\ files0 = files
    /\ gitCalls = 0 /\ apiCalls = 0
    /\ exitCode = -1 /\ failedAt = "none"
    /\ outPath = <<>>
    /\ idx = 1 /\ generated_sizes = {} /\ saved = <<>>
    /\ manifest = NoManifest /\ total = 0
    /\ input = NoInput /\ result = NoResult

Next ==
    \/ CheckApiKey
    \/ LastReleaseTag
    \/ GetRepoRoot
    \/ GatherContext
    \/ CommitsSinceTag
    \/ ChangedFiles
    \/ CurrentVersion
    \/ CallApi
    \/ ResolveOutput
    \/ MkdirOutputParent
    \/ WriteOutput
    \/ IconsMkdir
    \/ PreviewSave
    \/ DrawLoopStep
    \/ WriteContents

Spec == Init /\ [][Next]_vars

(***************************************************************************)
(* Properties of a run (Spec)                                              *)
(***************************************************************************)

\* round(points * scale), Python's round: half to even.
RoundPx(p10, scale) ==
    LET n == p10 * scale
        q == n \div 10
        r == n % 10
    IN  IF r < 5 THEN q
        ELSE IF r > 5 THEN q + 1
        ELSE IF q % 2 = 0 THEN q ELSE q + 1

CatalogPx == {RoundPx(IOS_ICON_SIZES[i][1], IOS_ICON_SIZES[i][2]) :
                i \in 1..Len(IOS_ICON_SIZES)}

FullIconRunDone == script = "icons" /\ ~previewOnly /\ pc = "done"

\* C1: a full icon run writes a manifest with one entry per catalog entry (18,
\* in catalog order) and exactly one image file per distinct pixel size; no
\* name is ever saved twice, and the reported total is the number of distinct
\* pixel sizes.
C1_ManifestPerEntryFilePerPixelSize ==
    /\ \A i, j \in 1..Len(saved) : saved[i] = saved[j] => i = j
    /\ FullIconRunDone =>
         /\ Len(IOS_ICON_SIZES) = 18
         /\ Len(manifest.images) = 18
         /\ \A i \in 1..18 :
              /\ manifest.images[i].scale = Dec(IOS_ICON_SIZES[i][2]) \o "x"
              /\ manifest.images[i].size =
                   PointsStr(IOS_ICON_SIZES[i][1]) \o "x" \o PointsStr(IOS_ICON_SIZES[i][1])
         /\ {saved[i] : i \in 1..Len(saved)} =
              {"icon_" \o Dec(px) \o "x" \o Dec(px) \o ".png" : px \in CatalogPx}
         /\ Len(saved) = Cardinality(CatalogPx)
         /\ {f \in IconFiles : files[f] = "new"} =
              {IconsDir \o <<"icon_" \o Dec(px) \o "x" \o Dec(px) \o ".png">> :
                 px \in CatalogPx} \cup {ContentsPath}
         /\ total = Cardinality(CatalogPx)

\* C1 witness: a full run over a directory an earlier run filled has finished;
\* 20pt@2x and 40pt@1x (both 40px) have both been visited, 13 files were saved.
C1_Witness ==
    /\ FullIconRunDone
    /\ files0[ContentsPath] = "old"
    /\ Len(saved) = 13
    /\ Len(manifest.images) = 18
    /\ files[IconPath(40)] = "new"

\* C2: with ANTHROPIC_API_KEY absent or empty, main of either text script
\* exits with status 1 at the credential check: no version-control subprocess,
\* no API call, no directory created, no file written.
C2_MissingKeyExitsBeforeSideEffects ==
    (script \in TextScripts /\ apiKey \in {"absent", "empty"}) =>
      /\ gitCalls = 0
      /\ apiCalls = 0
      /\ dirs = dirs0
      /\ files = files0
      /\ pc = "check_key" \/ (pc = "exited" /\ exitCode = 1)

\* C2 witness: the release-notes generator has exited on an empty key.
C2_Witness ==
    script = "release_notes" /\ apiKey = "empty" /\ pc = "exited" /\ exitCode = 1

\* C3 as stated: no failed run of any script leaves a newly written or
\* overwritten output file.
C3_FailedRunLeavesNoNewOutput ==
    exitCode = 1 => \A f \in DOMAIN files : files[f] # "new"

\* The file whose write raised, if the run failed in a write.
FailingWriteTarget ==
    IF script \in TextScripts /\ failedAt = "write" THEN {outPath}
    ELSE IF script = "icons" /\ failedAt = "preview" THEN {IconPath(1024)}
    ELSE IF script = "icons" /\ failedAt = "loop" /\ idx > Len(IOS_ICON_SIZES)
    THEN {ContentsPath}
    ELSE IF script = "icons" /\ failedAt = "loop"
    THEN {IconPath(PixelSize(IOS_ICON_SIZES[idx][1], IOS_ICON_SIZES[idx][2]))}
    ELSE {}

\* C3, amended: a text script that fails before its write step leaves every
\* output file as it was; the icon generator has no rollback: when a run
\* fails, every image it saved before the failure is on disk newly written,
\* and every file whose write it did not reach is as it was.
C3_FailedRunEffects ==
    exitCode = 1 =>
      /\ (script \in TextScripts /\ failedAt # "write") => files = files0
      /\ \A f \in DOMAIN files :
           IF \E i \in 1..Len(saved) : f = IconsDir \o <<saved[i]>>
           THEN files[f] = "new"
           ELSE f \in FailingWriteTarget \/ files[f] = files0[f]

\* C3 witness: a full icon run failed in the draw loop after saving images
\* over those of an earlier run.
C3_Witness ==
    /\ script = "icons" /\ exitCode = 1 /\ failedAt = "loop"
    /\ Len(saved) >= 2
    /\ files0[IconPath(40)] = "old" /\ files[IconPath(40)] = "new"
    /\ files[ContentsPath] = "old"

\* C6: every manifest entry has pixel size round(points x scale), filename
\* icon_<px>x<px>.png, scale "<scale>x", size "<points>x<points>", and idiom
\* iphone exactly for 60pt at 2x/3x, ipad exactly for 76pt and 83.5pt,
\* ios-marketing exactly for 1024pt at 1x, universal for every other entry.
C6_ManifestEntryFields ==
    FullIconRunDone =>
      /\ \A i \in 1..Len(IOS_ICON_SIZES) :
           LET e   == manifest.images[i]
               p10 == IOS_ICON_SIZES[i][1]
               sc  == IOS_ICON_SIZES[i][2]
               px  == RoundPx(p10, sc)
           IN  /\ e.filename = "icon_" \o Dec(px) \o "x" \o Dec(px) \o ".png"
               /\ e.scale = Dec(sc) \o "x"
               /\ e.size = PointsStr(p10) \o "x" \o PointsStr(p10)
               /\ (e.idiom = "iphone") <=> (p10 = 600 /\ sc \in {2, 3})
               /\ (e.idiom = "ipad") <=> (p10 \in {760, 835})
               /\ (e.idiom = "ios-marketing") <=> (p10 = 10240 /\ sc = 1)
               /\ (e.idiom = "universal") <=>
                    ~(\/ p10 = 600 /\ sc \in {2, 3}
                      \/ p10 \in {760, 835}
                      \/ p10 = 10240 /\ sc = 1)
      /\ manifest.images[7] =
           [filename |-> "icon_120x120.png", idiom |-> "iphone",
            scale |-> "2x", size |-> "60x60"]
      /\ manifest.images[17] =
           [filename |-> "icon_167x167.png", idiom |-> "ipad",
            scale |-> "2x", size |-> "83.5x83.5"]
      /\ manifest.images[18] =
           [filename |-> "icon_1024x1024.png", idiom |-> "ios-marketing",
            scale |-> "1x", size |-> "1024x1024"]

\* C6 witness: the manifest of a finished full run holds the 83.5pt@2x entry
\* and a universal one.
C6_Witness ==
    /\ FullIconRunDone
    /\ manifest.images[17].filename = "icon_167x167.png"
    /\ manifest.images[1].idiom = "universal"
    /\ manifest.images[8].idiom = "iphone"

\* The destination the probing rule names, from the directories present when
\* the run started.
ExpectedDefaultOut ==
    LET app == IF iosPath = <<".">> THEN <<"root", "fastlane">>
               ELSE <<"root">> \o iosPath \o <<"fastlane">>
    IN  IF app \in dirs0
        THEN app \o <<"metadata", "en-US", OutName(script)>>
        ELSE <<"root", "fastlane", "metadata", "en-US", OutName(script)>>

\* C10: without an --output path the text scripts write under
\* <root>/<ios_path>/fastlane/metadata/en-US when <root>/<ios_path>/fastlane
\* exists, otherwise under <root>/fastlane/metadata/en-US; the parent
\* directories exist before the write; with an --output path the result goes
\* to exactly that path.  Nothing else is written.
C10_OutputDestination ==
    (script \in TextScripts /\ pc \in {"write", "done"}) =>
      LET expected == IF outputArg.given /\ outputArg.value # <<>>
                      THEN outputArg.value ELSE ExpectedDefaultOut
      IN  /\ outPath = expected
          /\ \A k \in 1..(Len(expected) - 1) : SubSeq(expected, 1, k) \in dirs
          /\ pc = "done" =>
               /\ files[expected] = "new"
               /\ \A f \in DOMAIN files : f # expected => files[f] = files0[f]

\* C10 witness: no --output, both fastlane directories present, the
\* app-specific metadata directory missing at the start; the run has written.
C10_Witness ==
    /\ script = "description" /\ pc = "done"
    /\ ~outputArg.given
    /\ iosPath = <<"ios">>
    /\ <<"root", "ios", "fastlane">> \in dirs0
    /\ <<"root", "fastlane">> \in dirs0
    /\ <<"root", "ios", "fastlane", "metadata">> \notin dirs0
    /\ files[<<"root", "ios", "fastlane", "metadata", "en-US", "description.txt">>] = "new"

(***************************************************************************)
(* Helper functions applied to drawn inputs                                *)
(***************************************************************************)

\* No script runs while a helper function is checked on its own.
IdleMain ==
    /\ script = "none" /\ pc = "idle"
    /\ apiKey = "absent" /\ outputArg = NoOutput /\ previewOnly = FALSE
    /\ iosPath = <<".">>
    /\ dirs = {} /\ files = <<>> /\ dirs0 = {} /\ files0 = <<>>
    /\ gitCalls = 0 /\ apiCalls = 0
    /\ exitCode = -1 /\ failedAt = "none"
    /\ outPath = <<>>
    /\ idx = 1 /\ generated_sizes = {} /\ saved = <<>>
    /\ manifest = NoManifest /\ total = 0

SeqsUpTo(S, n) == UNION {[1..k -> S] : k \in 0..n}

(***************************************************************************)
(* get_commits_since_tag on the output of git log                          *)
(***************************************************************************)

MaxCommits == 2

\* Subjects and bodies git can print for %s and %b: a subject is one line and
\* may hold '|'; a body may be empty, end in a newline, hold blank lines and
\* hold '|'.
Subjects == {<<"s">>, <<"s", "|", "t">>}
Bodies ==
    { <<>>,
      <<"b">>,
      <<"b", "\n">>,
      <<"b", "\n", "\n", "c", "\n">>,
      <<"x", " ", "|", "y">>,
      <<"\n", "\n", "p", "|", "q", "|", "r", "|", "u", "|", "v", "\n">> }
Commits ==
    [hash : {<<"h">>}, subject : Subjects, body : Bodies,
     author : {<<"a">>}, date : {<<"d">>}]

RecentLogs == {<<>>, << [hash |-> <<"g">>, subject |-> <<"r">>, body |-> <<>>,
                         author |-> <<"a">>, date |-> <<"d">>] >>}

InitParse ==
    /\ IdleMain
    /\ \E cs \in SeqsUpTo(Commits, MaxCommits), rs \in RecentLogs,
          rangeOk \in BOOLEAN, recentOk \in BOOLEAN :
         input = [fn     |-> "get_commits_since_tag",
                  range  |-> IF rangeOk THEN Ok(LogOutput(cs)) ELSE CmdFailed,
                  recent |-> IF recentOk THEN Ok(LogOutput(rs)) ELSE CmdFailed]
    /\ result = NoResult

CallCommitsSinceTag ==
    /\ input.fn = "get_commits_since_tag" /\ ~result.done
    /\ result' = [done |-> TRUE, out |-> get_commits_since_tag(input.range, input.recent)]
    /\ UNCHANGED <<input, mainVars>>

NextParse == CallCommitsSinceTag

SpecParse == InitParse /\ [][NextParse]_vars

\* Lines and fields by position of the separators.
SepPositions(s, sep) == {i \in 1..Len(s) : s[i] = sep}
NSeg(s, sep) == Cardinality(SepPositions(s, sep)) + 1
KthPosition(P, k) == CHOOSE q \in P : Cardinality({r \in P : r < q}) = k - 1
SegAt(s, sep, k) ==
    LET P    == SepPositions(s, sep)
        from == IF k = 1 THEN 0 ELSE KthPosition(P, k - 1)
        to   == IF k = NSeg(s, sep) THEN Len(s) + 1 ELSE KthPosition(P, k)
    IN  SubSeq(s, from + 1, to - 1)
LinesOf(s) == [k \in 1..NSeg(s, "\n") |-> SegAt(s, "\n", k)]

\* The log output the function parsed.
ParsedOutput == IF input.range.rc = "ok" THEN input.range.stdout ELSE input.recent.stdout

WellFormedLines ==
    SelectSeq(LinesOf(ParsedOutput), LAMBDA l : l # <<>> /\ NSeg(l, "|") >= 5)

\* C4: the returned list holds, in line order, exactly one record per
\* non-empty output line with at least 5 '|'-delimited fields, built from its
\* first five fields; empty lines and lines with fewer fields are dropped, and
\* parsing raises nothing.
C4_OneRecordPerWellFormedLine ==
    (result.done /\ (input.range.rc = "ok" \/ input.recent.rc = "ok")) =>
      /\ ~result.out.raised
      /\ Len(result.out.value) = Len(WellFormedLines)
      /\ \A i \in 1..Len(WellFormedLines) :
           result.out.value[i] =
             [hash    |-> SegAt(WellFormedLines[i], "|", 1),
              subject |-> SegAt(WellFormedLines[i], "|", 2),
              body    |-> SegAt(WellFormedLines[i], "|", 3),
              author  |-> SegAt(WellFormedLines[i], "|", 4),
              date    |-> SegAt(WellFormedLines[i], "|", 5)]

\* C4 witness: the parsed output held an empty line, a short line, a line
\* of exactly 5 fields and one of more than 5; two or more records came back.
C4_Witness ==
    /\ result.done /\ input.range.rc = "ok"
    /\ \E k \in 1..NSeg(ParsedOutput, "\n") : LinesOf(ParsedOutput)[k] = <<>>
    /\ \E k \in 1..NSeg(ParsedOutput, "\n") :
         LinesOf(ParsedOutput)[k] # <<>> /\ NSeg(LinesOf(ParsedOutput)[k], "|") < 5
    /\ \E k \in 1..NSeg(ParsedOutput, "\n") : NSeg(LinesOf(ParsedOutput)[k], "|") = 5
    /\ \E k \in 1..NSeg(ParsedOutput, "\n") : NSeg(LinesOf(ParsedOutput)[k], "|") > 5
    /\ Len(result.out.value) >= 2

(***************************************************************************)
(* get_existing_metadata (generate_description.py)                         *)
(***************************************************************************)

MetaFileNames == {"name.txt", "subtitle.txt", "keywords.txt"}

\* file.replace(".txt", "")
FieldKey(f) ==
    CASE f = "name.txt" -> "name"
      [] f = "subtitle.txt" -> "subtitle"
      [] f = "keywords.txt" -> "keywords"

EmptyMap == [k \in {} |-> <<>>]

\* file_path.read_text(): the file's text is its core with the white space
\* around it.
FileText(file) == file.lead \o file.core \o file.trail

\* The inner loop over the three file names, in one directory d.
ReadMetadataDir(d, md) ==
    LET found == {FieldKey(f) : f \in {g \in MetaFileNames : d.files[g].exists}}
    IN  [k \in found \cup DOMAIN md |->
           IF k \in found
           THEN LET f == CHOOSE g \in MetaFileNames : FieldKey(g) = k
                IN  Strip(FileText(d.files[f]))
           ELSE md[k]]

\* if metadata: break
\* The loop without its break.
StopProbingNever(md) == FALSE
StopProbing(md) == DOMAIN md # {}

MetaDirOf(ip, first) ==
    IF first THEN PathJoin(RepoRoot, ip \o <<"fastlane", "metadata", "en-US">>)
    ELSE PathJoin(RepoRoot, <<"fastlane", "metadata", "en-US">>)

get_existing_metadata(tree, ip) ==
    LET d1 == tree[MetaDirOf(ip, TRUE)]
        d2 == tree[MetaDirOf(ip, FALSE)]
        m1 == IF d1.exists THEN ReadMetadataDir(d1, EmptyMap) ELSE EmptyMap
    IN  IF d1.exists /\ StopProbing(m1) THEN m1
        ELSE IF d2.exists THEN ReadMetadataDir(d2, m1)
        ELSE m1

AbsentFile == [exists |-> FALSE, lead |-> <<>>, core |-> <<>>, trail |-> <<>>]
BlankFile == [exists |-> TRUE, lead |-> <<" ">>, core |-> <<>>, trail |-> <<"\n">>]
ValueFile(tag, f) ==
    [exists |-> TRUE, lead |-> <<>>, core |-> <<tag, " ", FieldKey(f)>>, trail |-> <<"\n">>]

\* A metadata directory: missing, or present with each field file absent,
\* blank, or holding a value that names the directory and the field.
MetaDirStates(tag) ==
    { [exists |-> FALSE, files |-> [f \in MetaFileNames |-> AbsentFile]] }
    \cup
    { [exists |-> TRUE, files |-> fs] :
        fs \in { g \in [MetaFileNames -> {AbsentFile, BlankFile} \cup
                                         {ValueFile(tag, f) : f \in MetaFileNames}] :
                   \A f \in MetaFileNames : g[f].core \in {<<>>, <<tag, " ", FieldKey(f)>>} } }

InitMeta ==
    /\ IdleMain
    /\ \E ip \in IosPaths, a \in MetaDirStates("app"), r \in MetaDirStates("root") :
         input = [fn |-> "get_existing_metadata", ios_path |-> ip,
                  tree |-> (MetaDirOf(<<"ios">>, TRUE) :> a) @@ (MetaDirOf(<<"ios">>, FALSE) :> r)]
    /\ result = NoResult

CallExistingMetadata ==
    /\ input.fn = "get_existing_metadata" /\ ~result.done
    /\ result' = [done |-> TRUE, out |-> get_existing_metadata(input.tree, input.ios_path)]
    /\ UNCHANGED <<input, mainVars>>

NextMeta == CallExistingMetadata

SpecMeta == InitMeta /\ [][NextMeta]_vars

\* The two candidate directories, in probing order.
Candidates ==
    << input.tree[IF input.ios_path = <<".">>
                  THEN <<"root", "fastlane", "metadata", "en-US">>
                  ELSE <<"root">> \o input.ios_path \o <<"fastlane", "metadata", "en-US">>],
       input.tree[<<"root", "fastlane", "metadata", "en-US">>] >>

\* The fields of directory d: one per field file present, white space trimmed.
FieldsOf(d) ==
    [k \in {FieldKey(f) : f \in {g \in MetaFileNames : d.files[g].exists}} |->
       LET f == CHOOSE g \in MetaFileNames : FieldKey(g) = k IN d.files[f].core]

HasNonEmptyField(d) == d.exists /\ \E f \in MetaFileNames : d.files[f].exists /\ d.files[f].core # <<>>
HasAnyField(d) == d.exists /\ \E f \in MetaFileNames : d.files[f].exists

\* C5 as stated: the result is the fields of the first candidate directory
\* that yields a non-empty field, and the empty mapping when there is none.
C5_FirstDirWithNonEmptyField ==
    result.done =>
      result.out = IF HasNonEmptyField(Candidates[1]) THEN FieldsOf(Candidates[1])
                   ELSE IF HasNonEmptyField(Candidates[2]) THEN FieldsOf(Candidates[2])
                   ELSE EmptyMap

\* C5, amended: the result is the fields of the first candidate directory
\* (app-specific, then root-level) that exists and holds at least one of the
\* three field files, whatever the files hold (a blank file gives the field
\* the empty string); fields of the two directories are never mixed; when no
\* directory holds a field file, and so when neither exists, the result is
\* the empty mapping.
C5_FirstDirWithAnyFieldFile ==
    result.done =>
      /\ result.out = IF HasAnyField(Candidates[1]) THEN FieldsOf(Candidates[1])
                      ELSE IF HasAnyField(Candidates[2]) THEN FieldsOf(Candidates[2])
                      ELSE EmptyMap
      /\ \E i \in 1..2 : \A k \in DOMAIN result.out :
           \E f \in MetaFileNames :
             FieldKey(f) = k /\ Candidates[i].files[f].exists
               /\ result.out[k] = Candidates[i].files[f].core
      /\ (~Candidates[1].exists /\ ~Candidates[2].exists) => result.out = EmptyMap

\* C5 witness: the app-specific directory holds only a blank name.txt, the
\* root-level one holds values; the result is the app-specific blank field.
C5_Witness ==
    /\ result.done
    /\ input.ios_path = <<"ios">>
    /\ Candidates[1].exists /\ Candidates[1].files["name.txt"] = BlankFile
    /\ ~Candidates[1].files["subtitle.txt"].exists
    /\ ~Candidates[1].files["keywords.txt"].exists
    /\ HasNonEmptyField(Candidates[2])
    /\ DOMAIN result.out = {"name"} /\ result.out["name"] = <<>>

(***************************************************************************)
(* get_swift_files, read_file_contents, the prompt's code context          *)
(* (generate_description.py).  A file is its path, the length of its       *)
(* content and whether it can be read; a blob is known by its length.      *)
(***************************************************************************)

MaxSwiftFiles == 30
MaxChars == 50000
PromptContextCap == 30000

\* if "Tests" in str(f) or "build" in str(f) or ".build" in str(f)
SkippedPath(path) ==
    \/ IsSubstr(<<"T", "e", "s", "t", "s">>, path)
    \/ IsSubstr(<<"b", "u", "i", "l", "d">>, path)
    \/ IsSubstr(<<".", "b", "u", "i", "l", "d">>, path)

\* globbed: the paths base_path.glob("**/*.swift") yields, in its order.
get_swift_files(globbed) ==
    Take(SelectSeq(globbed, LAMBDA f : ~SkippedPath(f.path)), MaxSwiftFiles)

\* if total_chars + len(content) > max_chars: break
\* The running total left out of the test.
OverBudgetPerFile(total_chars, n, max_chars) == n > max_chars
OverBudget(total_chars, n, max_chars) == total_chars + n > max_chars

\* The loop of read_file_contents: the files whose content was appended.
RECURSIVE ReadLoop(_, _, _, _)
ReadLoop(fs, total_chars, contents, max_chars) ==
    IF fs = <<>> THEN contents
    ELSE IF ~Head(fs).readable
    THEN ReadLoop(Tail(fs), total_chars, contents, max_chars)
    ELSE IF OverBudget(total_chars, Head(fs).size, max_chars) THEN contents
    ELSE ReadLoop(Tail(fs), total_chars + Head(fs).size,
                  Append(contents, Head(fs)), max_chars)

\* len(f"// File: {f}\n{content}\n")
PieceLen(f) == 9 + Len(f.path) + 1 + f.size + 1

RECURSIVE SumPieceLen(_)
SumPieceLen(fs) == IF fs = <<>> THEN 0 ELSE PieceLen(Head(fs)) + SumPieceLen(Tail(fs))

\* len("\n".join(contents))
read_file_contents(fs, max_chars) ==
    LET contents == ReadLoop(fs, 0, <<>>, max_chars)
    IN  [included |-> contents,
         len |-> SumPieceLen(contents)
                   + (IF contents = <<>> THEN 0 ELSE Len(contents) - 1)]

\* len(code_context[:30000])
PromptContextLen(n) == IF n < PromptContextCap THEN n ELSE PromptContextCap

SourcePath == <<"/", "r", "/", "i", "o", "s", "/", "A", ".", "s", "w", "i", "f", "t">>
TestsPath ==
    <<"/", "r", "/", "i", "o", "s", "/", "A", "p", "p", "T", "e", "s", "t", "s",
      "/", "T", ".", "s", "w", "i", "f", "t">>
BuildPath ==
    <<"/", "r", "/", "i", "o", "s", "/", "b", "u", "i", "l", "d", "/", "B", ".",
      "s", "w", "i", "f", "t">>
DotBuildPath ==
    <<"/", "r", "/", "i", "o", "s", "/", ".", "b", "u", "i", "l", "d", "/", "C",
      ".", "s", "w", "i", "f", "t">>

SwiftFileKinds ==
    { [path |-> SourcePath, size |-> n, readable |-> TRUE] :
        n \in {0, 20000, 30000, MaxChars, MaxChars + 1} }
    \cup { [path |-> SourcePath, size |-> 20000, readable |-> FALSE] }
    \cup { [path |-> q, size |-> 100, readable |-> TRUE] :
             q \in {TestsPath, BuildPath, DotBuildPath} }

MaxRuns == 2
RunLengths == {1, 2, MaxSwiftFiles + 1}

\* A glob listing: up to MaxRuns runs of equal files.
RECURSIVE Expand(_)
Expand(runs) ==
    IF runs = <<>> THEN <<>>
    ELSE [i \in 1..Head(runs).n |-> Head(runs).file] \o Expand(Tail(runs))

InitCtx ==
    /\ IdleMain
    /\ \E runs \in SeqsUpTo([file : SwiftFileKinds, n : RunLengths], MaxRuns) :
         input = [fn |-> "gather_code_context", globbed |-> Expand(runs)]
    /\ result = NoResult

\* swift_files, code_context and the slice of it put in the prompt; direct:
\* read_file_contents on the whole listing.
CallGatherCodeContext ==
    /\ input.fn = "gather_code_context" /\ ~result.done
    /\ LET swift_files  == get_swift_files(input.globbed)
           code_context == read_file_contents(swift_files, MaxChars)
       IN  result' = [done |-> TRUE,
                      out |-> [swift_files  |-> swift_files,
                               code_context |-> code_context,
                               prompt_len   |-> PromptContextLen(code_context.len),
                               direct       |-> read_file_contents(input.globbed, MaxChars)]]
    /\ UNCHANGED <<input, mainVars>>

NextCtx == CallGatherCodeContext

SpecCtx == InitCtx /\ [][NextCtx]_vars

RECURSIVE SumSizes(_)
SumSizes(fs) == IF fs = <<>> THEN 0 ELSE Head(fs).size + SumSizes(Tail(fs))

NoSkippedDirIn(fs) ==
    \A i \in 1..Len(fs) :
      \A pat \in {<<"T", "e", "s", "t", "s">>, <<"b", "u", "i", "l", "d">>,
                  <<".", "b", "u", "i", "l", "d">>} :
        \A j \in 1..(Len(fs[i].path) - Len(pat) + 1) :
          SubSeq(fs[i].path, j, j + Len(pat) - 1) # pat

\* C7 as stated: at most 30 files, none under a test/build directory; the
\* blob of read_file_contents at most 50,000 characters for every list; the
\* prompt's code context at most 30,000 characters.
C7_BlobWithinMaxChars ==
    result.done =>
      /\ Len(result.out.swift_files) <= 30
      /\ NoSkippedDirIn(result.out.swift_files)
      /\ result.out.code_context.len <= 50000
      /\ result.out.direct.len <= 50000
      /\ result.out.prompt_len <= 30000

\* C7, amended: at most 30 files, none under a test/build directory; the
\* contents read_file_contents gathers total at most 50,000 characters for
\* every list, while the blob adds to them a "// File: <path>" line and a
\* newline per file and a newline between files, which the budget does not
\* count; the prompt's code context is at most 30,000 characters.
C7_ContentsWithinMaxChars ==
    result.done =>
      /\ Len(result.out.swift_files) <= 30
      /\ NoSkippedDirIn(result.out.swift_files)
      /\ \A blob \in {result.out.code_context, result.out.direct} :
           LET n == Len(blob.included)
           IN  /\ SumSizes(blob.included) <= 50000
               /\ blob.len = SumSizes(blob.included)
                               + n * 11 + SumSizes([i \in 1..n |-> [size |-> Len(blob.included[i].path)]])
                               + (IF n = 0 THEN 0 ELSE n - 1)
      /\ result.out.prompt_len <= 30000
      /\ result.out.prompt_len <= result.out.code_context.len

\* C7 witness: more than 30 source files were listed and 30 kept; the
\* contents gathered are within 50,000 characters, the blob is longer than
\* 50,000 and the prompt holds 30,000 characters of it.
C7_Witness ==
    /\ result.done
    /\ Len(input.globbed) > 30
    /\ Len(result.out.swift_files) = 30
    /\ SumSizes(result.out.code_context.included) = 50000
    /\ result.out.code_context.len > 50000
    /\ result.out.prompt_len = 30000

(***************************************************************************)
(* get_last_release_tag on the outcomes of its two queries                 *)
(***************************************************************************)

HexChar(v) ==
    CASE v < 10 -> Digit(v)
      [] v = 10 -> "a" [] v = 11 -> "b" [] v = 12 -> "c"
      [] v = 13 -> "d" [] v = 14 -> "e" [] v = 15 -> "f"

\* Commit hashes as git prints them: 40 hexadecimal digits.
CommitHash(seed) == [i \in 1..40 |-> HexChar((i * seed + seed \div 2) % 16)]
RootHashes == {CommitHash(k) : k \in {1, 3, 5, 7}}
\* A repository has one root commit, or several (merged histories).
RootLists == {<<h>> : h \in RootHashes} \cup {<<h, g>> : h \in RootHashes, g \in RootHashes}

Tags ==
    { <<"v", "1">>, <<"v", "1", ".", "2", ".", "0">>, <<"1", ".", "0">>,
      <<"r", "e", "l", "e", "a", "s", "e", "-", "2", "0", "2", "4">>,
      <<"b", "u", "i", "l", "d", "/", "7">> }

InitTag ==
    /\ IdleMain
    /\ \E tag \in Tags, roots \in RootLists, tagged \in BOOLEAN, rooted \in BOOLEAN :
         input = [fn |-> "get_last_release_tag",
                  tag |-> tag, roots |-> roots,
                  describe |-> IF tagged THEN Ok(tag \o <<"\n">>) ELSE CmdFailed,
                  rev_list |-> IF rooted THEN Ok(JoinWith(roots, "\n") \o <<"\n">>)
                               ELSE CmdFailed]
    /\ result = NoResult

CallLastReleaseTag ==
    /\ input.fn = "get_last_release_tag" /\ ~result.done
    /\ result' = [done |-> TRUE, out |-> get_last_release_tag(input.describe, input.rev_list)]
    /\ UNCHANGED <<input, mainVars>>

NextTag == CallLastReleaseTag

SpecTag == InitTag /\ [][NextTag]_vars

\* C8: when the tag query succeeds the result is the tag and the first-commit
\* query is not run; when the tag query fails the first-commit query is run
\* and the result is the first commit's hash cut to 8 characters.
C8_TagOrFirstCommitPrefix ==
    result.done =>
      /\ input.describe.rc = "ok" =>
           /\ ~result.out.raised
           /\ result.out.value = input.tag
           /\ result.out.calls = <<"describe">>
      /\ (input.describe.rc # "ok" /\ input.rev_list.rc = "ok") =>
           /\ ~result.out.raised
           /\ result.out.value = [i \in 1..8 |-> input.roots[1][i]]
           /\ result.out.calls = <<"describe", "rev-list">>
      /\ (\E i \in 1..Len(result.out.calls) : result.out.calls[i] = "rev-list")
           <=> input.describe.rc # "ok"

\* C8 witness: no tag, a repository with two root commits; the result is 8
\* characters long.
C8_Witness ==
    /\ result.done
    /\ input.describe.rc # "ok" /\ input.rev_list.rc = "ok"
    /\ Len(input.roots) = 2 /\ input.roots[1] # input.roots[2]
    /\ Len(result.out.value) = 8
    /\ ~result.out.raised

(***************************************************************************)
(* get_current_version (generate_release_notes.py).  A file's content is   *)
(* known by what the regular expression finds in it.                       *)
(***************************************************************************)

DefaultVersion == "1.0.0"

\* if ".build" in str(plist) or "DerivedData" in str(plist)
\* DerivedData forgotten.
InBuildDirDotBuildOnly(path) == IsSubstr(<<".", "b", "u", "i", "l", "d">>, path)
InBuildDir(path) ==
    \/ IsSubstr(<<".", "b", "u", "i", "l", "d">>, path)
    \/ IsSubstr(<<"D", "e", "r", "i", "v", "e", "d", "D", "a", "t", "a">>, path)

\* The loop over base_path.glob("**/Info.plist").
RECURSIVE ScanPlists(_)
ScanPlists(plists) ==
    IF plists = <<>> THEN DefaultVersion
    ELSE IF InBuildDir(Head(plists).path) THEN ScanPlists(Tail(plists))
    ELSE IF ~Head(plists).readable THEN ScanPlists(Tail(plists))
    ELSE IF Head(plists).found # "" THEN Head(plists).found
    ELSE ScanPlists(Tail(plists))

\* yml: project.yml; found is the version MARKETING_VERSION carries, "" when
\* the pattern does not match.  read_text on it is not guarded.
get_current_version(yml, plists) ==
    IF yml.exists /\ ~yml.readable THEN [raised |-> TRUE, value |-> ""]
    ELSE IF yml.exists /\ yml.found # "" THEN [raised |-> FALSE, value |-> yml.found]
    ELSE [raised |-> FALSE, value |-> ScanPlists(plists)]

PlistPath(dir) == <<"/", "r", "/">> \o dir \o <<"/", "I", "n", "f", "o", ".", "p", "l", "i", "s", "t">>
AppDirName == <<"A", "p", "p">>
DotBuildDirName == <<".", "b", "u", "i", "l", "d">>
DerivedDataDirName == <<"D", "e", "r", "i", "v", "e", "d", "D", "a", "t", "a">>

YmlStates ==
    { [exists |-> FALSE, readable |-> FALSE, found |-> ""],
      [exists |-> TRUE, readable |-> FALSE, found |-> ""],
      [exists |-> TRUE, readable |-> TRUE, found |-> ""],
      [exists |-> TRUE, readable |-> TRUE, found |-> "9.9.9"] }

PlistStates ==
    { [dir |-> d, path |-> PlistPath(d), readable |-> TRUE, found |-> v] :
        d \in {AppDirName, DotBuildDirName, DerivedDataDirName},
        v \in {"", "2.0.0", "3.1.4"} }
    \cup { [dir |-> AppDirName, path |-> PlistPath(AppDirName), readable |-> FALSE, found |-> ""] }

MaxPlists == 3

InitVer ==
    /\ IdleMain
    /\ \E yml \in YmlStates, plists \in SeqsUpTo(PlistStates, MaxPlists) :
         input = [fn |-> "get_current_version", yml |-> yml, plists |-> plists]
    /\ result = NoResult

CallCurrentVersion ==
    /\ input.fn = "get_current_version" /\ ~result.done
    /\ result' = [done |-> TRUE, out |-> get_current_version(input.yml, input.plists)]
    /\ UNCHANGED <<input, mainVars>>

NextVer == CallCurrentVersion

SpecVer == InitVer /\ [][NextVer]_vars

\* A plist that decides the version: outside the build directories, readable,
\* matching.
Deciding(i) ==
    /\ input.plists[i].dir \notin {DotBuildDirName, DerivedDataDirName}
    /\ input.plists[i].readable
    /\ input.plists[i].found # ""

\* C9: with a (readable) project.yml that matches, its marketing version;
\* otherwise the version of the first Info.plist outside .build and
\* DerivedData that is readable and matches; otherwise "1.0.0".  An
\* unreadable plist raises nothing, and nothing is written.
C9_FirstMatchWins ==
    (result.done /\ ~(input.yml.exists /\ ~input.yml.readable)) =>
      /\ ~result.out.raised
      /\ result.out.value =
           IF input.yml.exists /\ input.yml.found # "" THEN input.yml.found
           ELSE IF \E i \in 1..Len(input.plists) : Deciding(i)
           THEN LET first == CHOOSE i \in 1..Len(input.plists) :
                               Deciding(i) /\ \A j \in 1..(i - 1) : ~Deciding(j)
                IN  input.plists[first].found
           ELSE "1.0.0"
      /\ files = files0 /\ dirs = dirs0

\* C9 witness: project.yml without the key, then a plist under DerivedData
\* that matches, an unreadable plist, and an app plist that matches: the
\* third plist's version is returned.
C9_Witness ==
    /\ result.done
    /\ input.yml.exists /\ input.yml.readable /\ input.yml.found = ""
    /\ Len(input.plists) = 3
    /\ input.plists[1].dir = DerivedDataDirName /\ input.plists[1].found = "2.0.0"
    /\ ~input.plists[2].readable
    /\ Deciding(3) /\ input.plists[3].found = "3.1.4"
    /\ result.out.value = "3.1.4"

(***************************************************************************)
(* Properties of a run: preview, single API call, manifest and files       *)
(***************************************************************************)

PreviewName == "icon_1024x1024.png"
PreviewFile == IconsDir \o <<PreviewName>>

\* C11: with --preview-only the icon generator touches one file only,
\* icon_1024x1024.png in the output directory: no image of another size and
\* no Contents.json is written at any point of the run, files of those names
\* an earlier run left are as they were, and a run that completes has
\* written exactly that one file.
C11_PreviewOnlyWritesOnly1024 ==
    (script = "icons" /\ previewOnly) =>
      /\ \A f \in IconFiles \ {PreviewFile} : files[f] = files0[f]
      /\ manifest = NoManifest
      /\ total = 0
      /\ Len(saved) <= 1
      /\ pc = "done" =>
           /\ saved = <<PreviewName>>
           /\ files[PreviewFile] = "new"
           /\ {f \in IconFiles : files[f] = "new"} = {PreviewFile}
           /\ exitCode = 0

\* C11 witness: a preview run has completed in a directory that an earlier
\* full run filled; the old manifest and the old 40px image are still there.
C11_Witness ==
    /\ script = "icons" /\ previewOnly /\ pc = "done"
    /\ files0[ContentsPath] = "old" /\ files[ContentsPath] = "old"
    /\ files0[IconPath(40)] = "old" /\ files[IconPath(40)] = "old"
    /\ files0[PreviewFile] = "old" /\ files[PreviewFile] = "new"
    /\ saved = <<PreviewName>>

(***************************************************************************)
(* The emoji stripping of generate_description (lines 192-211)             *)
(***************************************************************************)

\* Text is a sequence of code points. The character class of emoji_pattern:
\*   U+1F600-U+1F64F = 128512..128591  emoticons
\*   U+1F300-U+1F5FF = 127744..128511  symbols & pictographs
\*   U+1F680-U+1F6FF = 128640..128767  transport & map symbols
\*   U+1F700-U+1F77F = 128768..128895  alchemical symbols
\*   U+1F780-U+1F7FF = 128896..129023  Geometric Shapes
\*   U+1F800-U+1F8FF = 129024..129279  Supplemental Arrows-C
\*   U+1F900-U+1F9FF = 129280..129535  Supplemental Symbols and Pictographs
\*   U+1FA00-U+1FA6F = 129536..129647  Chess Symbols
\*   U+1FA70-U+1FAFF = 129648..129791  Symbols and Pictographs Extended-A
\*   U+02702-U+027B0 = 9986..10160  Dingbats
\*   U+1F1E0-U+1F1FF = 127456..127487  Flags
EmojiRanges ==
    << <<128512, 128591>>,
       <<127744, 128511>>,
       <<128640, 128767>>,
       <<128768, 128895>>,
       <<128896, 129023>>,
       <<129024, 129279>>,
       <<129280, 129535>>,
       <<129536, 129647>>,
       <<129648, 129791>>,
       <<9986, 10160>>,
       <<127456, 127487>> >>

emoji_pattern(c) ==
    \E i \in 1..Len(EmojiRanges) : c >= EmojiRanges[i][1] /\ c <= EmojiRanges[i][2]

\* emoji_pattern.sub("", description): every maximal run of class members is
\* replaced by the empty string.
RECURSIVE SkipRun(_)
SkipRun(s) ==
    IF s # <<>> /\ emoji_pattern(Head(s)) THEN SkipRun(Tail(s)) ELSE s

RECURSIVE emoji_pattern_sub(_)
emoji_pattern_sub(s) ==
    IF s = <<>> THEN <<>>
    ELSE IF emoji_pattern(Head(s)) THEN emoji_pattern_sub(SkipRun(s))
    ELSE <<Head(s)>> \o emoji_pattern_sub(Tail(s))

\* str.isspace() of a code point, which is what str.strip() with no argument
\* trims: U+0009-000D, U+001C-0020, U+0085, U+00A0, U+1680, U+2000-200A,
\* U+2028, U+2029, U+202F, U+205F, U+3000.
IsSpaceCp(c) ==
    \/ c \in 9..13
    \/ c \in 28..32
    \/ c \in {133, 160, 5760, 8232, 8233, 8239, 8287, 12288}
    \/ c \in 8192..8202

RECURSIVE LStripCp(_)
LStripCp(s) == IF s # <<>> /\ IsSpaceCp(Head(s)) THEN LStripCp(Tail(s)) ELSE s

RECURSIVE RStripCp(_)
RStripCp(s) ==
    IF s # <<>> /\ IsSpaceCp(s[Len(s)]) THEN RStripCp(SubSeq(s, 1, Len(s) - 1)) ELSE s

StripCp(s) == RStripCp(LStripCp(s))

\* The trim done before the substitution instead of after it.
StripEmojisTrimFirst(description) == emoji_pattern_sub(StripCp(description))
\* lines 209-211
StripEmojis(description) == StripCp(emoji_pattern_sub(description))

MaxTextLen == 3

\* Code points a response can hold: a letter, three kinds of white space, and
\* both sides of the edges of the class (U+2701 | U+2702, U+27B0 | U+27B1,
\* U+1F1FF, U+1F600, U+1F64F | U+1F650, U+1FAFF | U+1FB00).
CodePoints ==
    {97, 32, 10, 160, 9985, 9986, 10160, 10161, 127487, 128512, 128591, 128592,
     129791, 129792}

InitEmoji ==
    /\ IdleMain
    /\ \E t \in SeqsUpTo(CodePoints, MaxTextLen) :
         input = [fn |-> "strip_emojis", text |-> t]
    /\ result = NoResult

\* The stripping applied to the response text.
CallStripEmojis ==
    /\ input.fn = "strip_emojis" /\ ~result.done
    /\ result' = [done |-> TRUE, passes |-> 1, first |-> StripEmojis(input.text),
                  out |-> StripEmojis(input.text)]
    /\ UNCHANGED <<input, mainVars>>

\* The stripping applied to its own result.
CallStripEmojisAgain ==
    /\ input.fn = "strip_emojis" /\ result.done /\ result.passes = 1
    /\ result' = [result EXCEPT !.passes = 2, !.out = StripEmojis(result.out)]
    /\ UNCHANGED <<input, mainVars>>

NextEmoji == CallStripEmojis \/ CallStripEmojisAgain

SpecEmoji == InitEmoji /\ [][NextEmoji]_vars

InSpecifiedBlocks(c) ==
    \/ c \in 9986..10160
    \/ c \in 127456..127487
    \/ c \in 127744..128591
    \/ c \in 128640..129791

\* C12: the emoji stripping is idempotent and complete: its result holds no
\* code point of the blocks of the pattern and no white space at either end,
\* and stripping that result again returns it unchanged.
C12_StripEmojisIdempotent ==
    result.done =>
      /\ \A i \in 1..Len(result.out) : ~InSpecifiedBlocks(result.out[i])
      /\ result.out # <<>> =>
           ~IsSpaceCp(result.out[1]) /\ ~IsSpaceCp(result.out[Len(result.out)])
      /\ result.passes = 2 => result.out = result.first

\* C12 witness: U+1F600, space, 'a' was stripped to 'a' (the emoji went and the
\* space it left at the front was trimmed), and stripping 'a' again gave 'a'.
C12_Witness ==
    /\ result.done /\ result.passes = 2
    /\ input.text = <<128512, 32, 97>>
    /\ result.first = <<97>>
    /\ result.out = <<97>>

\* The API call of the run has returned a response: it was made, and the run
\* did not end in it.
ApiReturned == apiCalls = 1 /\ failedAt # "api"

\* C13: in every run of the description or release-notes generator the
\* text-generation service is called at most once; a failed call ends the run
\* (exit status 1, nothing written, no second call); and the output file is
\* touched only after the one call has returned a response.
C13_SingleApiCallBeforeWrite ==
    script \in TextScripts =>
      /\ apiCalls <= 1
      /\ failedAt = "api" =>
           /\ pc = "crashed" /\ exitCode = 1
           /\ apiCalls = 1
           /\ files = files0
      /\ files # files0 => ApiReturned
      /\ pc \in {"resolve", "mkdir", "write", "done"} => ApiReturned
      /\ pc \in {"check_key", "get_repo_root", "main_last_tag", "last_tag", "gather",
                 "commits", "changed_files", "version", "api", "exited"} =>
           apiCalls = 0 /\ files = files0

\* C13 witness: a release-notes run overwrote an old release_notes.txt after
\* its single call returned.
C13_Witness ==
    /\ script = "release_notes" /\ pc = "done" /\ exitCode = 0
    /\ apiCalls = 1
    /\ files0[outPath] = "old" /\ files[outPath] = "new"

(***************************************************************************)
(* The commits of the release-notes prompt: the range query, its fallback, *)
(* and the cut at 50 (generate_release_notes.py lines 79-125 and 182-183)  *)
(***************************************************************************)

\* commits[:50]
PromptCommitCap == 50
\* git log -50
RecentLimit == 50

\* f"- {c['subject']} ({c['date']})" for c in commits[:50]; the lines are
\* then joined by "\n".
CommitLines(commits) ==
    [i \in 1..Len(Take(commits, PromptCommitCap)) |->
       <<"-", " ">> \o commits[i].subject \o <<" ", "(">> \o commits[i].date \o <<")">>]

\* How far past the cut the range logs go.
ExtraCommits == 2

\* A commit of the range (hash h) and one of the last-50 log (hash g); the
\* Piped ones have a two-line body with '|' in it, so that each of their two
\* output lines has five fields or more.
RangeCommit ==
    [hash |-> <<"h">>, subject |-> <<"s">>, body |-> <<>>,
     author |-> <<"a">>, date |-> <<"d">>]
RecentCommit ==
    [hash |-> <<"g">>, subject |-> <<"r">>, body |-> <<>>,
     author |-> <<"a">>, date |-> <<"e">>]
PipedBody == <<"x", "|", "y", "|", "z", "\n", "p", "|", "q", "|", "r", "|", "u">>
Piped(c) == [c EXCEPT !.body = PipedBody]

Repeat(c, n) == [i \in 1..n |-> c]

\* <tag>..HEAD has any number of commits; -50 prints 50 at most. With piped
\* commits, half the cap and one more give more records than the cap.
RangeCounts == 0..2 \cup ((PromptCommitCap - 1)..(PromptCommitCap + ExtraCommits))
RecentCounts == 0..2 \cup {RecentLimit - 1, RecentLimit}
PipedCounts == {1, 2, (PromptCommitCap \div 2) + 1}

InitFallback ==
    /\ IdleMain
    /\ \E range \in {CmdFailed}
                     \cup {Ok(LogOutput(Repeat(RangeCommit, n))) : n \in RangeCounts}
                     \cup {Ok(LogOutput(Repeat(Piped(RangeCommit), n))) : n \in PipedCounts},
          recent \in {CmdFailed}
                     \cup {Ok(LogOutput(Repeat(RecentCommit, n))) : n \in RecentCounts}
                     \cup {Ok(LogOutput(Repeat(Piped(RecentCommit), n))) : n \in PipedCounts} :
         input = [fn |-> "commit_text", range |-> range, recent |-> recent]
    /\ result = NoResult

\* commits = get_commits_since_tag(last_tag)
CallCommitsForPrompt ==
    /\ input.fn = "commit_text" /\ ~result.done
    /\ result' = [done |-> TRUE, formatted |-> FALSE,
                  out |-> get_commits_since_tag(input.range, input.recent),
                  commit_lines |-> <<>>]
    /\ UNCHANGED <<input, mainVars>>

\* commit_text = ... ; not reached when get_commits_since_tag raised.
FormatCommitText ==
    /\ input.fn = "commit_text" /\ result.done /\ ~result.formatted
    /\ ~result.out.raised
    /\ result' = [result EXCEPT !.formatted = TRUE,
                                !.commit_lines = CommitLines(result.out.value)]
    /\ UNCHANGED <<input, mainVars>>

NextFallback == CallCommitsForPrompt \/ FormatCommitText

SpecFallback == InitFallback /\ [][NextFallback]_vars

\* Lines of a log output (no line of the modelled logs is blank or short).
NLines(out) ==
    IF out = <<>> THEN 0
    ELSE Cardinality({i \in 1..Len(out) : out[i] = "\n"}) + 1

MinOf(a, b) == IF a < b THEN a ELSE b

\* C14: a failing range command alone never makes get_commits_since_tag fail:
\* the last-50 command is then run and, when it prints a log, the commits are
\* those of that log; when the range command succeeds the last-50 command is
\* not run and the commits are those of the range; the function raises only
\* when the last-50 command itself fails. In each case the prompt lists the
\* first 50 of the commits at most.
C14_FallbackToLast50 ==
    result.done =>
      LET r == result.out
      IN  /\ input.range.rc = "ok" =>
               /\ ~r.raised
               /\ r.calls = <<"log-range">>
               /\ Len(r.value) = NLines(input.range.stdout)
               /\ \A i \in 1..Len(r.value) : r.value[i].hash \in {<<"h">>, <<"p">>}
          /\ (input.range.rc # "ok" /\ input.recent.rc = "ok") =>
               /\ ~r.raised
               /\ r.calls = <<"log-range", "log-50">>
               /\ Len(r.value) = NLines(input.recent.stdout)
               /\ \A i \in 1..Len(r.value) : r.value[i].hash \in {<<"g">>, <<"p">>}
          /\ r.raised <=> (input.range.rc # "ok" /\ input.recent.rc # "ok")
          /\ result.formatted =>
               /\ Len(result.commit_lines) = MinOf(Len(r.value), 50)
               /\ Len(result.commit_lines) <= 50
               /\ \A i \in 1..Len(result.commit_lines) :
                    result.commit_lines[i] =
                      <<"-", " ">> \o r.value[i].subject \o <<" ", "(">>
                        \o r.value[i].date \o <<")">>

\* C14 witness: the range command failed, the last-50 log had 26 commits of
\* two qualifying lines each, 52 commits were parsed from it and the prompt
\* lists 50 of them.
C14_Witness ==
    /\ result.done /\ result.formatted
    /\ input.range.rc # "ok" /\ input.recent.rc = "ok"
    /\ result.out.calls = <<"log-range", "log-50">>
    /\ Len(result.out.value) = 52
    /\ result.out.value[1].hash = <<"g">>
    /\ Len(result.commit_lines) = 50

(***************************************************************************)
(* Manifest and image files of one full run                                *)
(***************************************************************************)

ManifestNames == {manifest.images[i].filename : i \in 1..Len(manifest.images)}
SavedNames == {saved[j] : j \in 1..Len(saved)}

\* C15: when a full run of the icon generator has completed, every filename
\* of a manifest entry is the name of an image this run saved (and that file
\* is newly written in the output directory), and every image this run saved
\* is named by a manifest entry.
C15_ManifestMatchesSavedFiles ==
    FullIconRunDone =>
      /\ manifest # NoManifest
      /\ \A n \in ManifestNames :
           /\ n \in SavedNames
           /\ (IconsDir \o <<n>>) \in DOMAIN files
           /\ files[IconsDir \o <<n>>] = "new"
      /\ \A n \in SavedNames : n \in ManifestNames
      /\ \A f \in IconFiles \ {ContentsPath} :
           files[f] = "new" => f[Len(f)] \in ManifestNames

\* C15 witness: a full run has completed; the 83.5pt@2x entry of the manifest
\* names icon_167x167.png, which is among the files the run saved.
C15_Witness ==
    /\ FullIconRunDone
    /\ \E i \in 1..Len(manifest.images) :
         /\ manifest.images[i].size = "83.5x83.5"
         /\ manifest.images[i].filename = "icon_167x167.png"
    /\ "icon_167x167.png" \in SavedNames
    /\ files[IconPath(167)] = "new"
    /\ Cardinality(ManifestNames) = 13

====
